---- MODULE Spec2Model ----
(***************************************************************************)
(* Model of api/index.py: the OData-like endpoint odata_endpoint (GET      *)
(* query translation, POST insert, database session lifecycle and error    *)
(* mapping) and get_db_connection.                                         *)
(*                                                                         *)
(* Text is modelled as a sequence of one-character strings, so that        *)
(* splitting, stripping, quoting, percent-decoding and placeholder         *)
(* counting are computed, not assumed.                                     *)
(***************************************************************************)
EXTENDS Integers, Sequences, FiniteSets, TLC

VARIABLES
  method,             \* request.method
  entity_set,         \* the <path:entity_set> URL segment
  args,               \* request.args: $select, $filter, $orderby, $top, $skip
  new_record_data,    \* kind of JSON body carried by a POST
  NEON_DATABASE_URL,  \* whether the process configuration holds a connection string
  pc,                 \* position of the handler
  exc,                \* the exception in flight, "none" when there is none
  conn,               \* "none" (None), "open", "closed"
  cur,                \* "none" (None), "open", "closed"
  txn,                \* state of the connection's transaction in the database
  final_query,        \* the statement text handed to cur.execute
  sql_params,         \* the parameter list handed with it
  resp,               \* the response of the request
  log,                \* history of the calls made on the database driver
  failedAt,           \* the driver call that raised a database error, or "none"
  value_raw,          \* a $filter value token (literal coercion alone)
  value               \* the literal bound for it

vars == << method, entity_set, args, new_record_data, NEON_DATABASE_URL, pc, exc,
           conn, cur, txn, final_query, sql_params, resp, log, failedAt,
           value_raw, value >>

(***************************************************************************)
(* Bounds of the model.                                                    *)
(***************************************************************************)
MaxNameLen == 2
MaxPieces == 3

(***************************************************************************)
(* Characters.                                                             *)
(***************************************************************************)
Ascii ==
  << " ", "!", "\"", "#", "$", "%", "&", "'", "(", ")", "*", "+",
     ",", "-", ".", "/", "0", "1", "2", "3", "4", "5", "6", "7",
     "8", "9", ":", ";", "<", "=", ">", "?", "@", "A", "B", "C",
     "D", "E", "F", "G", "H", "I", "J", "K", "L", "M", "N", "O",
     "P", "Q", "R", "S", "T", "U", "V", "W", "X", "Y", "Z", "[",
     "<backslash>", "]", "^", "_", "<backtick>", "a", "b", "c", "d", "e", "f", "g",
     "h", "i", "j", "k", "l", "m", "n", "o", "p", "q", "r", "s",
     "t", "u", "v", "w", "x", "y", "z", "{", "|", "}", "~" >>

\* ord(c) for a printable ASCII character, 0 for any other character.  The
\* backslash and the backtick are written by name.
Ord(c) ==
  IF \E i \in 1..Len(Ascii) : Ascii[i] = c
  THEN 31 + (CHOOSE i \in 1..Len(Ascii) : Ascii[i] = c)
  ELSE 0

\* chr(n); bytes outside printable ASCII are kept apart from every ASCII
\* character but not from each other.
Chr(n) == IF n >= 32 /\ n <= 126 THEN Ascii[n - 31] ELSE "<non-printable>"

IsAsciiDigit(c) == Ord(c) >= 48 /\ Ord(c) <= 57
IsAsciiUpper(c) == Ord(c) >= 65 /\ Ord(c) <= 90
IsAsciiLower(c) == Ord(c) >= 97 /\ Ord(c) <= 122

\* Non-ASCII characters of the model: LATIN SMALL LETTER E WITH ACUTE and
\* ARABIC-INDIC DIGIT THREE.  str.isalnum() is true of both.
UnicodeLetters == { "U+00E9" }
UnicodeDigits == { "U+0663" }

\* char.isalnum() of line 87, together with the test for underscore.
IsAlnumAscii(c) == IsAsciiDigit(c) \/ IsAsciiUpper(c) \/ IsAsciiLower(c)
IsAlnum(c) == IsAlnumAscii(c) \/ c \in UnicodeLetters \/ c \in UnicodeDigits

Whitespace == { " ", "\t", "\n", "\r" }

LowerChar(c) == IF IsAsciiUpper(c) THEN Chr(Ord(c) + 32) ELSE c

\* str.lower()
Lower(s) == [ i \in 1..Len(s) |-> LowerChar(s[i]) ]

(***************************************************************************)
(* String operations of the Python runtime used by the handler.            *)
(***************************************************************************)
RECURSIVE LStrip(_)
LStrip(s) ==
  IF s # << >> /\ Head(s) \in Whitespace THEN LStrip(Tail(s)) ELSE s

RECURSIVE RStrip(_)
RStrip(s) ==
  IF s # << >> /\ s[Len(s)] \in Whitespace
  THEN RStrip(SubSeq(s, 1, Len(s) - 1))
  ELSE s

\* str.strip()
Strip(s) == RStrip(LStrip(s))

\* str.split(sep) for a one-character separator: always at least one part.
RECURSIVE SplitFrom(_, _, _)
SplitFrom(s, sep, acc) ==
  IF s = << >> THEN << acc >>
  ELSE IF Head(s) = sep THEN << acc >> \o SplitFrom(Tail(s), sep, << >>)
  ELSE SplitFrom(Tail(s), sep, Append(acc, Head(s)))

Split(s, sep) == SplitFrom(s, sep, << >>)

\* sep.join(parts)
RECURSIVE Join(_, _)
Join(parts, sep) ==
  IF parts = << >> THEN << >>
  ELSE IF Len(parts) = 1 THEN parts[1]
  ELSE parts[1] \o sep \o Join(Tail(parts), sep)

StartsWith(s, c) == s # << >> /\ s[1] = c
EndsWith(s, c) == s # << >> /\ s[Len(s)] = c

\* s[1:-1]
Interior(s) == IF Len(s) <= 2 THEN << >> ELSE SubSeq(s, 2, Len(s) - 1)

\* The f-string that wraps a name in double quotes.
Quote(s) == << "\"" >> \o s \o << "\"" >>

(***************************************************************************)
(* urllib.parse.unquote_plus                                               *)
(***************************************************************************)
IsHex(c) ==
  \/ IsAsciiDigit(c)
  \/ (Ord(c) >= 65 /\ Ord(c) <= 70)
  \/ (Ord(c) >= 97 /\ Ord(c) <= 102)

HexVal(c) ==
  IF IsAsciiDigit(c) THEN Ord(c) - 48
  ELSE IF IsAsciiUpper(c) THEN Ord(c) - 55
  ELSE Ord(c) - 87

\* unquote: each %XX with two hexadecimal digits becomes the character of
\* that code; a % not followed by two hexadecimal digits is kept.
RECURSIVE Unquote(_)
Unquote(s) ==
  IF s = << >> THEN << >>
  ELSE IF s[1] = "%" /\ Len(s) >= 3 /\ IsHex(s[2]) /\ IsHex(s[3])
  THEN << Chr(16 * HexVal(s[2]) + HexVal(s[3])) >> \o Unquote(SubSeq(s, 4, Len(s)))
  ELSE << s[1] >> \o Unquote(Tail(s))

PlusToSpace(s) == [ i \in 1..Len(s) |-> IF s[i] = "+" THEN " " ELSE s[i] ]

UnquotePlus(s) == Unquote(PlusToSpace(s))

(***************************************************************************)
(* int(str) and float(str)                                                 *)
(***************************************************************************)
\* Digits with single underscores allowed between digits (PEP 515).
DigitPart(s) ==
  /\ s # << >>
  /\ IsAsciiDigit(s[1])
  /\ IsAsciiDigit(s[Len(s)])
  /\ \A i \in 1..Len(s) : IsAsciiDigit(s[i]) \/ s[i] = "_"
  /\ \A i \in 1..(Len(s) - 1) : ~(s[i] = "_" /\ s[i + 1] = "_")

HasSign(s) == s # << >> /\ s[1] \in { "+", "-" }
Unsigned(s) == IF HasSign(s) THEN Tail(s) ELSE s
Negative(s) == s # << >> /\ s[1] = "-"

RECURSIVE DigitsValue(_, _)
DigitsValue(s, acc) ==
  IF s = << >> THEN acc
  ELSE IF s[1] = "_" THEN DigitsValue(Tail(s), acc)
  ELSE DigitsValue(Tail(s), 10 * acc + (Ord(s[1]) - 48))

\* int(s): surrounding whitespace, then an optional sign, then digits.
IntParses(s) == DigitPart(Unsigned(Strip(s)))
IntValue(s) ==
  LET t == Strip(s)
      v == DigitsValue(Unsigned(t), 0)
  IN  IF Negative(t) THEN 0 - v ELSE v

\* Index of the first occurrence of one of the characters cs in s, 0 if none.
FirstIndex(s, cs) ==
  IF \E i \in 1..Len(s) : s[i] \in cs
  THEN CHOOSE i \in 1..Len(s) : s[i] \in cs /\ \A j \in 1..(i - 1) : s[j] \notin cs
  ELSE 0

FloatWords == { << "i", "n", "f" >>, << "n", "a", "n" >>,
                << "i", "n", "f", "i", "n", "i", "t", "y" >> }

Mantissa(u) ==
  LET e == FirstIndex(u, { "e", "E" }) IN IF e = 0 THEN u ELSE SubSeq(u, 1, e - 1)
HasExponent(u) == FirstIndex(u, { "e", "E" }) # 0
Exponent(u) == SubSeq(u, FirstIndex(u, { "e", "E" }) + 1, Len(u))
IntDigits(m) ==
  LET d == FirstIndex(m, { "." }) IN IF d = 0 THEN m ELSE SubSeq(m, 1, d - 1)
FracDigits(m) ==
  LET d == FirstIndex(m, { "." }) IN IF d = 0 THEN << >> ELSE SubSeq(m, d + 1, Len(m))

MantissaParses(m) ==
  /\ IntDigits(m) = << >> \/ DigitPart(IntDigits(m))
  /\ FracDigits(m) = << >> \/ DigitPart(FracDigits(m))
  /\ IntDigits(m) # << >> \/ FracDigits(m) # << >>

\* float(s): surrounding whitespace, an optional sign, then inf, infinity or
\* nan in any case, or a decimal literal with an optional exponent.
FloatParses(s) ==
  LET u == Unsigned(Strip(s)) IN
    \/ Lower(u) \in FloatWords
    \/ /\ MantissaParses(Mantissa(u))
       /\ HasExponent(u) => DigitPart(Unsigned(Exponent(u)))

CountDigits(s) == Cardinality({ i \in 1..Len(s) : IsAsciiDigit(s[i]) })

RECURSIVE Normalise(_, _)
Normalise(n, e) ==
  IF n = 0 THEN << 0, 0 >>
  ELSE IF n % 10 = 0 THEN Normalise(n \div 10, e + 1)
  ELSE << n, e >>

\* The value of a decimal literal as <<n, e>>, standing for n * 10^e with n
\* not divisible by 10 (binary rounding is not modelled).
FloatValue(s) ==
  LET t == Strip(s)
      u == Unsigned(t)
      m == Mantissa(u)
      n == DigitsValue(IntDigits(m) \o FracDigits(m), 0)
      x == IF HasExponent(u)
           THEN (IF Negative(Exponent(u)) THEN 0 - DigitsValue(Unsigned(Exponent(u)), 0)
                 ELSE DigitsValue(Unsigned(Exponent(u)), 0))
           ELSE 0
      ne == Normalise(n, x - CountDigits(FracDigits(m)))
  IN  << IF Negative(t) THEN 0 - ne[1] ELSE ne[1], ne[2] >>

(***************************************************************************)
(* Bound values: one record shape for every Python value that is bound.    *)
(***************************************************************************)
StrLit(s) == [ type |-> "str", s |-> s, n |-> 0, e |-> 0, b |-> FALSE ]
BoolLit(b) == [ type |-> "bool", s |-> << >>, n |-> 0, e |-> 0, b |-> b ]
IntLit(n) == [ type |-> "int", s |-> << >>, n |-> n, e |-> 0, b |-> FALSE ]
FloatLit(s) ==
  IF Lower(Unsigned(Strip(s))) \in FloatWords
  THEN [ type |-> "float", s |-> Lower(Strip(s)), n |-> 0, e |-> 0, b |-> FALSE ]
  ELSE [ type |-> "float", s |-> << >>, n |-> FloatValue(s)[1], e |-> FloatValue(s)[2],
         b |-> FALSE ]
NoneLit == [ type |-> "none", s |-> << >>, n |-> 0, e |-> 0, b |-> FALSE ]

TrueFalse == { << "t", "r", "u", "e" >>, << "f", "a", "l", "s", "e" >> }

\* Lines 131-143: the literal bound for a $filter value token.
CoerceLiteral(raw) ==
  IF StartsWith(raw, "'") /\ EndsWith(raw, "'") THEN StrLit(UnquotePlus(Interior(raw)))
  ELSE IF Lower(raw) \in TrueFalse THEN BoolLit(Lower(raw) = << "t", "r", "u", "e" >>)
  ELSE IF IntParses(raw) THEN IntLit(IntValue(raw))
  ELSE IF FloatParses(raw) THEN FloatLit(raw)
  ELSE StrLit(raw)

(***************************************************************************)
(* Request parameters: request.args.get gives None or a string.            *)
(***************************************************************************)
Absent == [ present |-> FALSE, text |-> << >> ]
Given(s) == [ present |-> TRUE, text |-> s ]

\* Python truth of an optional string: neither None nor empty.
Truthy(p) == p.present /\ p.text # << >>

StripAll(parts) == [ i \in 1..Len(parts) |-> Strip(parts[i]) ]
NonEmpty(parts) == SelectSeq(parts, LAMBDA p : p # << >>)
QuoteAll(parts) == [ i \in 1..Len(parts) |-> Quote(parts[i]) ]

\* Lines 97-109: the projection.
ColumnsToSelect(select_param) ==
  LET sanitized_columns == QuoteAll(NonEmpty(StripAll(Split(select_param.text, ","))))
  IN  IF Truthy(select_param) /\ sanitized_columns # << >>
      THEN Join(sanitized_columns, << ",", " " >>)
      ELSE << "*" >>

\* Lines 125-129: the OData comparison operators and their SQL operators.
Operators == { << "e", "q" >>, << "g", "t" >>, << "l", "t" >>, << "g", "e" >>, << "l", "e" >>, << "n", "e" >> }
SqlOperator(op) ==
  CASE op = << "e", "q" >> -> << "=" >>
    [] op = << "g", "t" >> -> << ">" >>
    [] op = << "l", "t" >> -> << "<" >>
    [] op = << "g", "e" >> -> << ">", "=" >>
    [] op = << "l", "e" >> -> << "<", "=" >>
    [] op = << "n", "e" >> -> << "!", "=" >>

\* Lines 115-125: whether $filter yields a predicate.
FilterApplies(filter_param) ==
  /\ Truthy(filter_param)
  /\ Len(Split(filter_param.text, " ")) >= 3
  /\ Lower(Split(filter_param.text, " ")[2]) \in Operators

FilterValueRaw(filter_param) ==
  LET parts == Split(filter_param.text, " ")
  IN  Join(SubSeq(parts, 3, Len(parts)), << " " >>)

\* Lines 111-153: query_parts after the $filter block.
QueryParts(filter_param) ==
  IF FilterApplies(filter_param)
  THEN LET parts == Split(filter_param.text, " ")
       IN  << Quote(parts[1]) \o << " " >> \o SqlOperator(Lower(parts[2])) \o << " ", "%", "s" >> >>
  ELSE << >>

\* Lines 131-146: the parameters appended by the $filter block.
FilterParams(filter_param) ==
  IF FilterApplies(filter_param)
  THEN << CoerceLiteral(FilterValueRaw(filter_param)) >>
  ELSE << >>

\* Lines 154-156.
WhereClause(query_parts) ==
  IF query_parts # << >> THEN << " ", "W", "H", "E", "R", "E", " " >> \o Join(query_parts, << " ", "A", "N", "D", " " >>) ELSE << >>

\* Lines 165-172: one $orderby entry.
OrderPart(part) ==
  LET components == Split(part, " ")
  IN  Quote(components[1]) \o
      (IF Len(components) > 1 /\ Lower(components[2]) = << "d", "e", "s", "c" >>
       THEN << " ", "D", "E", "S", "C" >> ELSE << " ", "A", "S", "C" >>)

\* Lines 158-176.
OrderByClause(orderby_param) ==
  LET entries == NonEmpty(StripAll(Split(orderby_param.text, ",")))
      order_parts == [ i \in 1..Len(entries) |-> OrderPart(entries[i]) ]
  IN  IF Truthy(orderby_param) /\ order_parts # << >>
      THEN << " ", "O", "R", "D", "E", "R", " ", "B", "Y", " " >> \o Join(order_parts, << ",", " " >>)
      ELSE << >>

\* Lines 178-185: limit_clause is assigned before int(top_param) is tried.
LimitClause(top_param) == IF Truthy(top_param) THEN << " ", "L", "I", "M", "I", "T", " ", "%", "s" >> ELSE << >>

\* Lines 187-194: offset_clause is assigned before int(skip_param) is tried.
OffsetClause(skip_param) == IF Truthy(skip_param) THEN << " ", "O", "F", "F", "S", "E", "T", " ", "%", "s" >> ELSE << >>

\* Lines 183 and 192: the parameter appended when int() succeeds.
PageParams(param) ==
  IF Truthy(param) /\ IntParses(param.text) THEN << IntLit(IntValue(param.text)) >>
  ELSE << >>

\* A variant of SqlParams that appends the $skip value before the $top value.
SqlParamsSkipFirst(a) == FilterParams(a.filter) \o PageParams(a.skip) \o PageParams(a.top)

\* Lines 112, 146, 183, 192: sql_params in the order of the appends.
SqlParams(a) == FilterParams(a.filter) \o PageParams(a.top) \o PageParams(a.skip)

\* Line 196.
FinalQuery(name, a) ==
  << "S", "E", "L", "E", "C", "T", " " >> \o ColumnsToSelect(a.select) \o << " ", "F", "R", "O", "M", " " >> \o Quote(name)
    \o WhereClause(QueryParts(a.filter)) \o OrderByClause(a.orderby)
    \o LimitClause(a.top) \o OffsetClause(a.skip) \o << ";" >>

\* Lines 238-248: the INSERT statement for the items of the JSON object.
InsertQuery(name, items) ==
  << "I", "N", "S", "E", "R", "T", " ", "I", "N", "T", "O", " " >> \o Quote(name) \o << " ", "(" >>
    \o Join([ i \in 1..Len(items) |-> Quote(items[i].key) ], << ",", " " >>)
    \o << ")", " ", "V", "A", "L", "U", "E", "S", " ", "(" >> \o Join([ i \in 1..Len(items) |-> << "%", "s" >> ], << ",", " " >>)
    \o << ")", " ", "R", "E", "T", "U", "R", "N", "I", "N", "G", " ", "*", ";" >>

\* Line 241: the values of the items, in the order of the keys.
InsertValues(items) == [ i \in 1..Len(items) |-> items[i].val ]

(***************************************************************************)
(* The driver's view of a statement: %s is a placeholder, %% an escaped    *)
(* percent sign.                                                           *)
(***************************************************************************)
RECURSIVE CountPlaceholders(_)
CountPlaceholders(stmt) ==
  IF Len(stmt) < 2 THEN 0
  ELSE IF stmt[1] = "%" /\ stmt[2] = "s" THEN 1 + CountPlaceholders(SubSeq(stmt, 3, Len(stmt)))
  ELSE IF stmt[1] = "%" /\ stmt[2] = "%" THEN CountPlaceholders(SubSeq(stmt, 3, Len(stmt)))
  ELSE CountPlaceholders(Tail(stmt))

\* cursor.execute binds a sequence only when every placeholder has its value.
Binds(stmt, params) == CountPlaceholders(stmt) = Len(params)

(***************************************************************************)
(* Requests.                                                               *)
(***************************************************************************)
\* Characters of entity-set names: an ASCII letter, the underscore, a
\* character that is no letter or digit, a non-ASCII letter and a non-ASCII
\* digit.  The route's path converter never yields an empty name.
EntityAlphabet == { "e", "_", "-", "U+00E9", "U+0663" }

RECURSIVE NamesOf(_)
NamesOf(k) ==
  IF k = 0 THEN { << >> }
  ELSE LET shorter == NamesOf(k - 1)
       IN  shorter \cup { Append(n, c) : n \in shorter, c \in EntityAlphabet }

EntityNames == NamesOf(MaxNameLen) \ { << >> }

SelectValues == { Absent, Given(<< "a" >>), Given(<< "a", ",", " ", "b" >>), Given(<< " ", ",", " " >>) }
FilterValues ==
  { Absent, Given(<< "a" >>), Given(<< "a", " ", "x", "x", " ", "1" >>), Given(<< "a", " ", "e", "q", " ", "1" >>),
    Given(<< "a", " ", "G", "T", " ", "'", "x", " ", "y", "'" >>), Given(<< "a", " ", "e", "q", " ", "'" >>) }
OrderByValues == { Absent, Given(<< "a", " ", "d", "e", "s", "c", ",", "b" >>) }
TopValues == { Absent, Given(<< "2" >>), Given(<< "x" >>) }
SkipValues == { Absent, Given(<< "1" >>), Given(<< "y" >>) }

ArgSets ==
  [ select : SelectValues, filter : FilterValues, orderby : OrderByValues,
    top : TopValues, skip : SkipValues ]

NoArgs ==
  [ select |-> Absent, filter |-> Absent, orderby |-> Absent, top |-> Absent,
    skip |-> Absent ]

\* JSON bodies of a POST: none at all, null, the empty object, a non-empty
\* array, and non-empty objects.
Item(k, v) == [ key |-> k, val |-> v ]
NoBody == [ kind |-> "none", items |-> << >> ]
Bodies ==
  { [ kind |-> "absent", items |-> << >> ],
    [ kind |-> "null", items |-> << >> ],
    [ kind |-> "empty", items |-> << >> ],
    [ kind |-> "array", items |-> << >> ],
    [ kind |-> "object", items |-> << Item(<< "n", "a", "m", "e" >>, StrLit(<< "A", "l", "i", "c", "e" >>)) >> ],
    [ kind |-> "object",
      items |-> << Item(<< "n", "a", "m", "e" >>, StrLit(<< "A", "l", "i", "c", "e" >>)), Item(<< "a", "g", "e" >>, IntLit(30)) >> ] }

\* Responses.  by = "handler" for a value the handler returns, "framework"
\* for the answer the framework gives when an exception leaves the handler.
NoResponse == [ status |-> 0, by |-> "none", error |-> FALSE, sqlstate |-> FALSE ]
ErrorResponse(code) ==
  [ status |-> code, by |-> "handler", error |-> TRUE, sqlstate |-> FALSE ]
DatabaseErrorResponse ==
  [ status |-> 500, by |-> "handler", error |-> TRUE, sqlstate |-> TRUE ]
DataResponse(code) ==
  [ status |-> code, by |-> "handler", error |-> FALSE, sqlstate |-> FALSE ]
FrameworkError ==
  [ status |-> 500, by |-> "framework", error |-> FALSE, sqlstate |-> FALSE ]

Init ==
  /\ method \in { "GET", "POST" }
  /\ entity_set \in EntityNames
  /\ NEON_DATABASE_URL \in BOOLEAN
  /\ args = NoArgs
  /\ new_record_data = NoBody
  /\ pc = "sanitize"
  /\ exc = "none"
  /\ conn = "none"
  /\ cur = "none"
  /\ txn = "none"
  /\ final_query = << >>
  /\ sql_params = << >>
  /\ resp = NoResponse
  /\ log = << >>
  /\ failedAt = "none"
  /\ value_raw = << >>
  /\ value = NoneLit

\* raise: control passes to the except clauses of the handler's try.
Raise(kind, at) ==
  /\ exc' = kind
  /\ failedAt' = at
  /\ pc' = "except"

\* return inside the try: the value is kept while the finally clause runs.
Return(r) ==
  /\ resp' = r
  /\ pc' = "finally"

\* Line 87.
SafeEntitySetRaw(name) == SelectSeq(name, LAMBDA c : IsAlnum(c) \/ c = "_")

\* Lines 85-90: the table-name check.
Sanitize ==
  /\ pc = "sanitize"
  /\ IF SafeEntitySetRaw(entity_set) = << >> \/ SafeEntitySetRaw(entity_set) # entity_set
     THEN Return(ErrorResponse(400))
     ELSE pc' = "connect" /\ UNCHANGED resp
  /\ UNCHANGED << method, entity_set, args, new_record_data, NEON_DATABASE_URL, exc,
                  conn, cur, txn, final_query, sql_params, log, failedAt,
                  value_raw, value >>

\* Lines 18-29 and 92: get_db_connection.
Connect ==
  /\ pc = "connect"
  /\ \/ /\ ~NEON_DATABASE_URL
        /\ Raise("ValueError", "none")
        /\ UNCHANGED << conn, log >>
     \/ /\ NEON_DATABASE_URL
        /\ conn' = "open"
        /\ log' = Append(log, "connect")
        /\ pc' = "cursor"
        /\ UNCHANGED << exc, failedAt >>
     \/ /\ NEON_DATABASE_URL
        /\ log' = Append(log, "connect")
        /\ Raise("DatabaseError", "connect")
        /\ UNCHANGED conn
  /\ UNCHANGED << method, entity_set, args, new_record_data, NEON_DATABASE_URL,
                  cur, txn, final_query, sql_params, resp, value_raw, value >>

\* Line 93: conn.cursor().
Cursor ==
  /\ pc = "cursor"
  /\ log' = Append(log, "cursor")
  /\ \/ /\ cur' = "open"
        /\ pc' = IF method = "GET" THEN "get" ELSE "post"
        /\ UNCHANGED << exc, failedAt >>
     \/ /\ Raise("DatabaseError", "cursor")
        /\ UNCHANGED cur
  /\ UNCHANGED << method, entity_set, args, new_record_data, NEON_DATABASE_URL,
                  conn, txn, final_query, sql_params, resp, value_raw, value >>

\* Lines 95-198: the GET branch up to the statement and its parameters.
BuildQuery ==
  /\ pc = "get"
  /\ \E a \in ArgSets :
       /\ args' = a
       /\ final_query' = FinalQuery(entity_set, a)
       /\ sql_params' = SqlParams(a)
  /\ pc' = "execute"
  /\ UNCHANGED << method, entity_set, new_record_data, NEON_DATABASE_URL, exc, conn,
                  cur, txn, resp, log, failedAt, value_raw, value >>

\* Lines 200 and 253: cur.execute.  A placeholder without a value raises
\* IndexError before anything is sent; a statement that is sent opens the
\* connection's transaction, and the database may reject it.
Execute ==
  /\ pc = "execute"
  /\ log' = Append(log, "execute")
  /\ \/ /\ ~Binds(final_query, sql_params)
        /\ Raise("Exception", "none")
        /\ UNCHANGED txn
     \/ /\ Binds(final_query, sql_params)
        /\ txn' = "open"
        /\ pc' = IF method = "GET" THEN "fetchall" ELSE "commit"
        /\ UNCHANGED << exc, failedAt >>
     \/ /\ Binds(final_query, sql_params)
        /\ txn' = "open"
        /\ Raise("DatabaseError", "execute")
  /\ UNCHANGED << method, entity_set, args, new_record_data, NEON_DATABASE_URL,
                  conn, cur, final_query, sql_params, resp, value_raw, value >>

\* Line 201: cur.fetchall().
FetchAll ==
  /\ pc = "fetchall"
  /\ log' = Append(log, "fetch")
  /\ \/ pc' = "respond" /\ UNCHANGED << exc, failedAt >>
     \/ Raise("DatabaseError", "fetch")
  /\ UNCHANGED << method, entity_set, args, new_record_data, NEON_DATABASE_URL,
                  conn, cur, txn, final_query, sql_params, resp, value_raw, value >>

\* Lines 203-222: the rows are converted and returned with status 200; a
\* column value that cannot be serialised raises.
RespondRows ==
  /\ pc = "respond"
  /\ \/ Return(DataResponse(200)) /\ UNCHANGED << exc, failedAt >>
     \/ Raise("Exception", "none") /\ UNCHANGED resp
  /\ UNCHANGED << method, entity_set, args, new_record_data, NEON_DATABASE_URL,
                  conn, cur, txn, final_query, sql_params, log, value_raw, value >>

\* Lines 224-251: the POST branch up to the statement and its values.
\* Without a JSON body request.json is None or raises, depending on the
\* framework's version; a non-empty body that is no object has no items().
ReadBody ==
  /\ pc = "post"
  /\ \E body \in Bodies :
       /\ new_record_data' = body
       /\ \/ /\ body.kind \in { "absent", "null", "empty" }
             /\ Return(ErrorResponse(400))
             /\ UNCHANGED << exc, failedAt, final_query, sql_params >>
          \/ /\ body.kind \in { "absent", "array" }
             /\ Raise("Exception", "none")
             /\ UNCHANGED << resp, final_query, sql_params >>
          \/ /\ body.kind = "object"
             /\ final_query' = InsertQuery(entity_set, body.items)
             /\ sql_params' = InsertValues(body.items)
             /\ pc' = "execute"
             /\ UNCHANGED << exc, failedAt, resp >>
  /\ UNCHANGED << method, entity_set, args, NEON_DATABASE_URL, conn, cur, txn, log,
                  value_raw, value >>

\* Line 254: conn.commit().
Commit ==
  /\ pc = "commit"
  /\ log' = Append(log, "commit")
  /\ \/ /\ txn' = "committed"
        /\ pc' = "fetchone"
        /\ UNCHANGED << exc, failedAt >>
     \/ /\ Raise("DatabaseError", "commit")
        /\ UNCHANGED txn
  /\ UNCHANGED << method, entity_set, args, new_record_data, NEON_DATABASE_URL,
                  conn, cur, final_query, sql_params, resp, value_raw, value >>

\* Line 257: cur.fetchone().
FetchOne ==
  /\ pc = "fetchone"
  /\ log' = Append(log, "fetch")
  /\ \/ pc' = "created" /\ UNCHANGED << exc, failedAt >>
     \/ Raise("DatabaseError", "fetch")
  /\ UNCHANGED << method, entity_set, args, new_record_data, NEON_DATABASE_URL,
                  conn, cur, txn, final_query, sql_params, resp, value_raw, value >>

\* Lines 258-273: the row is converted and returned with status 201; a
\* column value that cannot be serialised raises.
RespondCreated ==
  /\ pc = "created"
  /\ \/ Return(DataResponse(201)) /\ UNCHANGED << exc, failedAt >>
     \/ Raise("Exception", "none") /\ UNCHANGED resp
  /\ UNCHANGED << method, entity_set, args, new_record_data, NEON_DATABASE_URL,
                  conn, cur, txn, final_query, sql_params, log, value_raw, value >>

\* Lines 275-277.
HandleValueError ==
  /\ pc = "except"
  /\ exc = "ValueError"
  /\ exc' = "none"
  /\ Return(ErrorResponse(400))
  /\ UNCHANGED << method, entity_set, args, new_record_data, NEON_DATABASE_URL,
                  conn, cur, txn, final_query, sql_params, log, failedAt,
                  value_raw, value >>

\* Lines 278-281.  conn.rollback() on None raises AttributeError, and a
\* rollback may itself fail; either exception leaves the handler once the
\* finally clause has run.  A rollback ends an open transaction only.
HandleDatabaseError ==
  /\ pc = "except"
  /\ exc = "DatabaseError"
  /\ \/ /\ conn = "none"
        /\ exc' = "AttributeError"
        /\ pc' = "finally"
        /\ UNCHANGED << txn, resp, log >>
     \/ /\ conn # "none"
        /\ log' = Append(log, "rollback")
        /\ txn' = IF txn = "open" THEN "rolledback" ELSE txn
        /\ exc' = "none"
        /\ Return(DatabaseErrorResponse)
     \/ /\ conn # "none"
        /\ log' = Append(log, "rollback")
        /\ exc' = "RollbackError"
        /\ pc' = "finally"
        /\ UNCHANGED << txn, resp >>
  /\ UNCHANGED << method, entity_set, args, new_record_data, NEON_DATABASE_URL,
                  conn, cur, final_query, sql_params, failedAt, value_raw, value >>

\* Lines 282-284.
HandleException ==
  /\ pc = "except"
  /\ exc = "Exception"
  /\ exc' = "none"
  /\ Return(ErrorResponse(500))
  /\ UNCHANGED << method, entity_set, args, new_record_data, NEON_DATABASE_URL,
                  conn, cur, txn, final_query, sql_params, log, failedAt,
                  value_raw, value >>

\* The calls of the finally clause, in order.
Closes(c, k) ==
  (IF c = "open" THEN << "cur.close" >> ELSE << >>)
    \o (IF k = "open" THEN << "conn.close" >> ELSE << >>)

\* A variant of Finally that closes the connection only when no exception is
\* leaving the handler.
FinallyLeavingConnection ==
  /\ pc = "finally"
  /\ cur' = IF cur = "open" THEN "closed" ELSE cur
  /\ conn' = IF conn = "open" /\ exc = "none" THEN "closed" ELSE conn
  /\ txn' = txn
  /\ log' = log \o Closes(cur, IF exc = "none" THEN conn ELSE "none")
  /\ resp' = IF exc = "none" THEN resp ELSE FrameworkError
  /\ pc' = "done"
  /\ UNCHANGED << method, entity_set, args, new_record_data, NEON_DATABASE_URL, exc,
                  final_query, sql_params, failedAt, value_raw, value >>

\* Lines 285-291: the cursor and the connection are closed when set; closing
\* the connection discards a transaction that is still open.  The response
\* is then the value returned or, for an exception that leaves the handler,
\* the framework's 500.
Finally ==
  /\ pc = "finally"
  /\ cur' = IF cur = "open" THEN "closed" ELSE cur
  /\ conn' = IF conn = "open" THEN "closed" ELSE conn
  /\ txn' = IF conn = "open" /\ txn = "open" THEN "discarded" ELSE txn
  /\ log' = log \o Closes(cur, conn)
  /\ resp' = IF exc = "none" THEN resp ELSE FrameworkError
  /\ pc' = "done"
  /\ UNCHANGED << method, entity_set, args, new_record_data, NEON_DATABASE_URL, exc,
                  final_query, sql_params, failedAt, value_raw, value >>

Next ==
  \/ Sanitize
  \/ Connect
  \/ Cursor
  \/ BuildQuery
  \/ Execute
  \/ FetchAll
  \/ RespondRows
  \/ ReadBody
  \/ Commit
  \/ FetchOne
  \/ RespondCreated
  \/ HandleValueError
  \/ HandleDatabaseError
  \/ HandleException
  \/ Finally

Spec == Init /\ [][Next]_vars

(***************************************************************************)
(* Literal coercion alone: every token made of at most MaxPieces pieces.   *)
(***************************************************************************)
Pieces ==
  { << "'" >>, << "%", "2", "7" >>, << "%" >>, << "+" >>, << "-" >>, << "1" >>,
    << "." >>, << "e" >>, << "_" >>, << " " >>, << "a" >>,
    << "t", "r", "u", "e" >>, << "F", "a", "l", "s", "e" >>, << "n", "a", "n" >> }

RECURSIVE TokensOf(_)
TokensOf(k) ==
  IF k = 0 THEN { << >> }
  ELSE LET shorter == TokensOf(k - 1)
       IN  shorter \cup { t \o p : t \in shorter, p \in Pieces }

Tokens == TokensOf(MaxPieces)

Idle ==
  /\ method = "GET"
  /\ entity_set = << >>
  /\ args = NoArgs
  /\ new_record_data = NoBody
  /\ NEON_DATABASE_URL = TRUE
  /\ exc = "none"
  /\ conn = "none"
  /\ cur = "none"
  /\ txn = "none"
  /\ final_query = << >>
  /\ sql_params = << >>
  /\ resp = NoResponse
  /\ log = << >>
  /\ failedAt = "none"

InitCoerce ==
  /\ Idle
  /\ pc = "token"
  /\ value_raw \in Tokens
  /\ value = NoneLit

Coerce ==
  /\ pc = "token"
  /\ value' = CoerceLiteral(value_raw)
  /\ pc' = "coerced"
  /\ UNCHANGED << method, entity_set, args, new_record_data, NEON_DATABASE_URL, exc,
                  conn, cur, txn, final_query, sql_params, resp, log, failedAt,
                  value_raw >>

NextCoerce == Coerce

SpecCoerce == InitCoerce /\ [][NextCoerce]_vars

(***************************************************************************)
(* Claims.                                                                 *)
(***************************************************************************)
\* The rule of the literal coercer as documented: a quoted token needs at
\* least two characters, and its interior is percent-decoded.
DocumentedLiteral(raw) ==
  IF Len(raw) >= 2 /\ StartsWith(raw, "'") /\ EndsWith(raw, "'")
  THEN StrLit(Unquote(Interior(raw)))
  ELSE IF Lower(raw) \in TrueFalse THEN BoolLit(Lower(raw) = << "t", "r", "u", "e" >>)
  ELSE IF IntParses(raw) THEN IntLit(IntValue(raw))
  ELSE IF FloatParses(raw) THEN FloatLit(raw)
  ELSE StrLit(raw)

\* C9: every $filter value token is bound by the first matching rule of:
\* quoted token of length >= 2 -> percent-decoded interior; true/false ->
\* boolean; integer; float; anything else, a lone quote included -> the raw
\* token text.
C9_CoercionPrecedence == pc = "coerced" => value = DocumentedLiteral(value_raw)


(***************************************************************************)
(* Vocabulary of the claims.                                               *)
(***************************************************************************)
Called(op) == \E i \in 1..Len(log) : log[i] = op
Calls(op) == Cardinality({ i \in 1..Len(log) : log[i] = op })
CalledBefore(a, b) ==
  \E i \in 1..Len(log) : log[i] = a /\ \A j \in 1..Len(log) : log[j] = b => i < j

\* A GET request whose statement has just been handed to cur.execute.
GetExecuted == method = "GET" /\ log # << >> /\ log[Len(log)] = "execute"

OccursAt(s, i, pat) ==
  i + Len(pat) - 1 <= Len(s) /\ SubSeq(s, i, i + Len(pat) - 1) = pat

ClauseKeywords ==
  << [ name |-> "SELECT", text |-> << "S", "E", "L", "E", "C", "T", " " >> ],
     [ name |-> "FROM", text |-> << " ", "F", "R", "O", "M", " " >> ],
     [ name |-> "WHERE", text |-> << " ", "W", "H", "E", "R", "E", " " >> ],
     [ name |-> "ORDER BY", text |-> << " ", "O", "R", "D", "E", "R", " ", "B", "Y", " " >> ],
     [ name |-> "LIMIT", text |-> << " ", "L", "I", "M", "I", "T", " " >> ],
     [ name |-> "OFFSET", text |-> << " ", "O", "F", "F", "S", "E", "T", " " >> ] >>

KeywordAt(stmt, i) ==
  IF stmt[i] \in { " ", "S" } /\ \E k \in 1..Len(ClauseKeywords) : OccursAt(stmt, i, ClauseKeywords[k].text)
  THEN ClauseKeywords[CHOOSE k \in 1..Len(ClauseKeywords) :
                        OccursAt(stmt, i, ClauseKeywords[k].text)].name
  ELSE "none"

\* The clause of each placeholder of a statement, in order of occurrence.
RECURSIVE PlaceholderClauses(_, _, _)
PlaceholderClauses(stmt, i, clause) ==
  IF i > Len(stmt) THEN << >>
  ELSE IF stmt[i] = "%" /\ OccursAt(stmt, i, << "%", "s" >>)
  THEN << clause >> \o PlaceholderClauses(stmt, i + 2, clause)
  ELSE LET keyword == KeywordAt(stmt, i)
       IN  PlaceholderClauses(stmt, i + 1, IF keyword # "none" THEN keyword ELSE clause)

BoundClauses(stmt) ==
  SelectSeq(PlaceholderClauses(stmt, 1, "none"),
            LAMBDA c : c \in { "WHERE", "LIMIT", "OFFSET" })

\* Each of $filter, $top and $skip that is present is well-formed.
WellFormed(a) ==
  /\ a.filter.present => FilterApplies(a.filter)
  /\ a.top.present => IntParses(a.top.text)
  /\ a.skip.present => IntParses(a.skip.text)

IfPresent(p, x) == IF p.present THEN << x >> ELSE << >>

\* C1: for every GET request the statement handed to execute has as many
\* %s placeholders as the parameter list handed with it has elements.
C1_PlaceholdersMatchParams ==
  GetExecuted => CountPlaceholders(final_query) = Len(sql_params)

\* C2: for every GET request whose present $filter, $top and $skip are
\* well-formed, the parameter list is the filter value, the top value and
\* the skip value (the present ones, in that order), and that is the order
\* in which their placeholders occur in the statement (WHERE, LIMIT,
\* OFFSET); with all three present the list has three elements.
C2_ParamsFollowPlaceholders ==
  (GetExecuted /\ WellFormed(args)) =>
    /\ sql_params =
         IfPresent(args.filter, CoerceLiteral(FilterValueRaw(args.filter)))
           \o IfPresent(args.top, IntLit(IntValue(args.top.text)))
           \o IfPresent(args.skip, IntLit(IntValue(args.skip.text)))
    /\ BoundClauses(final_query) =
         IfPresent(args.filter, "WHERE") \o IfPresent(args.top, "LIMIT")
           \o IfPresent(args.skip, "OFFSET")
    /\ (args.filter.present /\ args.top.present /\ args.skip.present)
         => Len(sql_params) = 3

C2_AllThreePresent ==
  /\ GetExecuted
  /\ WellFormed(args)
  /\ args.filter.present /\ args.top.present /\ args.skip.present
  /\ args.orderby.present
  /\ Len(sql_params) = 3

WithoutTop(a) == [ a EXCEPT !.top = Absent ]
WithoutSkip(a) == [ a EXCEPT !.skip = Absent ]

\* cur.execute raised while formatting the statement.
ExecuteRaised ==
  pc = "except" /\ exc = "Exception" /\ log # << >> /\ log[Len(log)] = "execute"

\* C3: a GET request whose $top is present but no integer builds the same
\* statement and parameter list as the same request without $top, and does
\* not end in an error for it; likewise for $skip.
C3_NonIntegerPageDropped ==
  /\ (GetExecuted /\ args.top.present /\ ~IntParses(args.top.text)) =>
       /\ final_query = FinalQuery(entity_set, WithoutTop(args))
       /\ sql_params = SqlParams(WithoutTop(args))
       /\ WellFormed(WithoutTop(args)) => ~ExecuteRaised
  /\ (GetExecuted /\ args.skip.present /\ ~IntParses(args.skip.text)) =>
       /\ final_query = FinalQuery(entity_set, WithoutSkip(args))
       /\ sql_params = SqlParams(WithoutSkip(args))
       /\ WellFormed(WithoutSkip(args)) => ~ExecuteRaised

OutsideWhitelist(name) ==
  \E i \in 1..Len(name) : ~IsAlnumAscii(name[i]) /\ name[i] # "_"

\* C4: every request, GET or POST, whose entity-set name has a character
\* outside [A-Za-z0-9_] is rejected with a 400 before the database is
\* reached; only non-empty names of ASCII letters, ASCII digits and
\* underscores pass the table-name check.
C4_WhitelistRejects ==
  (pc # "sanitize" /\ OutsideWhitelist(entity_set)) =>
    /\ pc \in { "finally", "done" }
    /\ resp = ErrorResponse(400)
    /\ log = << >>

\* C5: when the handler finishes, a connection it acquired and a cursor it
\* created are closed, on every exit path.
C5_SessionReleased == pc = "done" => conn # "open" /\ cur # "open"

C5_ReleasedAfterFailedRollback ==
  /\ pc = "done"
  /\ exc = "RollbackError"
  /\ conn = "closed"
  /\ cur = "closed"
  /\ CalledBefore("rollback", "conn.close")

\* C6: every database failure (connecting, creating the cursor, executing,
\* committing, fetching) ends in the handler's 500 response with an error
\* and a sqlstate field, and the failed call is not repeated.
C6_DatabaseFailureIs500 ==
  (pc = "done" /\ failedAt # "none") =>
    /\ resp = DatabaseErrorResponse
    /\ Calls(failedAt) = 1

\* C7: on the POST path a 201 is answered only after the commit, and when
\* the database fails during or after the insert (execute, commit, fetching
\* the returned row) the transaction is rolled back before the connection
\* is closed.
C7_CommitThenRespondElseRollback ==
  (pc = "done" /\ method = "POST") =>
    /\ resp.status = 201 => txn = "committed" /\ CalledBefore("commit", "conn.close")
    /\ failedAt \in { "execute", "commit", "fetch" } =>
         /\ CalledBefore("rollback", "conn.close")
         /\ txn # "committed"

\* C8: a POST whose JSON body is empty or absent is answered 400 without
\* reaching the database: no connection is acquired, nothing is executed or
\* committed.
C8_EmptyBodyNeverReachesDatabase ==
  (method = "POST" /\ new_record_data.kind \in { "absent", "null", "empty" }) =>
    /\ conn = "none"
    /\ log = << >>
    /\ pc = "done" => resp = ErrorResponse(400)

\* C10: a POST answered with an error status (400 or 500) has not committed
\* its insert; a row is committed only when the answer is 201.
C10_ErrorMeansNothingPersisted ==
  (pc = "done" /\ method = "POST") =>
    /\ resp.status \in { 400, 500 } => txn # "committed"
    /\ txn = "committed" => resp.status = 201

====
